---------------------------- MODULE Spec2Model ----------------------------
(***************************************************************************)
(* Model of the AuDite front end: the login / admin-signup widget (Login), *)
(* the admin console (AdminDashboard) and the external document store and  *)
(* browser they act on.                                                    *)
(*                                                                         *)
(* One browser tab is modelled.  Every event handler, promise callback and *)
(* timer callback of the source is one action; an asynchronous call is a   *)
(* request left in flight by the handler and answered by a later action.   *)
(* Timers count down in steps of TimerDelay; the wall clock a handler reads *)
(* (Date.now(), new Date()) is an input of the handler.                    *)
(*                                                                         *)
(* Spec is the whole application.  LoginSpec and AdminSpec are the login   *)
(* page and the admin console each on its own.                             *)
(***************************************************************************)
EXTENDS Integers, Sequences, FiniteSets, Bags, TLC

(***************************************************************************)
(* Bounds of the model.                                                    *)
(***************************************************************************)
MaxDocs == 2        \* document identifiers the store assigns in one run
RandBits == 18      \* resolution of the finest modelled Math.random() value
MaxPending == 2     \* store calls in flight plus banner timers pending at once
MaxUsers == 2       \* accounts in the users prop of AdminDashboard

(***************************************************************************)
(* Program constants.                                                      *)
(***************************************************************************)
TimerDelay == 1500      \* setTimeout(..., 1500) of the login / signup flow
BannerDelay == 3000     \* setTimeout(() => setShowAlert(false), 3000)
IdDigits == 8           \* substr(2, 8)

(***************************************************************************)
(* Strings.  Number.prototype.toString(36), substr and toUpperCase are     *)
(* computed character by character.                                        *)
(***************************************************************************)
Digits36 == "0123456789abcdefghijklmnopqrstuvwxyz"
Upper36 == "0123456789ABCDEFGHIJKLMNOPQRSTUVWXYZ"

CharAt(s, i) == SubSeq(s, i, i)

Min(a, b) == IF a < b THEN a ELSE b

\* The digits of num/den (0 <= num < den) after the radix point, in base 36,
\* until the fraction is exhausted.
RECURSIVE FractionDigits(_, _)
FractionDigits(num, den) ==
  IF num = 0 THEN ""
  ELSE CharAt(Digits36, ((num * 36) \div den) + 1)
         \o FractionDigits((num * 36) % den, den)

\* r.toString(36) for a value r = num/den of Math.random(), 0 <= r < 1.
toString36(r) ==
  IF r.num = 0 THEN "0" ELSE "0." \o FractionDigits(r.num, r.den)

\* s.substr(start, length), start counted from 0.
substr(s, start, length) ==
  IF start >= Len(s) THEN ""
  ELSE SubSeq(s, start + 1, Min(Len(s), start + length))

toUpperCaseChar(c) ==
  IF \E i \in 1..Len(Digits36) : CharAt(Digits36, i) = c
  THEN CharAt(Upper36, CHOOSE i \in 1..Len(Digits36) : CharAt(Digits36, i) = c)
  ELSE c

RECURSIVE toUpperCase(_)
toUpperCase(s) ==
  IF s = "" THEN ""
  ELSE toUpperCaseChar(CharAt(s, 1)) \o toUpperCase(SubSeq(s, 2, Len(s)))

\* The values Math.random() takes in the model: 1/2 and a value with
\* RandBits binary digits, whose base-36 expansion is longer than IdDigits.
RandomSource ==
  { [num |-> 1, den |-> 2],
    [num |-> (2 ^ RandBits) - 1, den |-> 2 ^ RandBits] }

generateDoctorId(r) == "DR" \o toUpperCase(substr(toString36(r), 2, IdDigits))

\* Two decimal digits / three decimal digits of a number.
Pad2(n) == CharAt(Digits36, (n \div 10) + 1) \o CharAt(Digits36, (n % 10) + 1)
Pad3(n) == CharAt(Digits36, (n \div 100) + 1) \o Pad2(n % 100)

\* new Date(ms).toISOString(), for the first minute of the epoch.
toISOString(ms) ==
  "1970-01-01T00:00:" \o Pad2(ms \div 1000) \o "." \o Pad3(ms % 1000) \o "Z"


(***************************************************************************)
(* Inputs the user can type or select.                                     *)
(***************************************************************************)
Roles == {"doctor", "user", "admin"}
Routes == {"/", "/login", "/dashboard", "/user", "/admindashboard"}
Emails == {"a@b.com"}
\* Values the wall clock has when a handler reads it, in milliseconds.
Timestamps == {1500}
Passwords == {"pw123", "1234"}
\* What the user submits in the login form: for each role the identifiers
\* of that role's accounts, and for role user an identifier of another role
\* and the doctor pair the earlier version of the form accepted.
LoginInputs ==
  ({"doctor"} \X {generateDoctorId(r) : r \in RandomSource} \X Passwords)
  \cup ({"admin"} \X Emails \X Passwords)
  \cup ({"user"} \X ({"user1234"} \cup Emails) \X Passwords)
  \cup {<<"user", "doctor123", "password">>}
\* Store-assigned document identifiers, in the order the store lists them.
DocName(i) == "doc" \o ToString(i)
DocIds == {DocName(i) : i \in 1..MaxDocs}
IdIndex(id) == CHOOSE i \in 1..MaxDocs : DocName(i) = id

SignInLabel == " Sign In "
SignUpLabel == "Sign Up"

VARIABLES
  location,       \* the route the router renders
  db,             \* the store: [admins, doctors], each a set of [id, data]
  usedIds,        \* [admins, doctors]: identifiers the store has assigned
  localStorage,   \* set of [key, value]
  activeTab,      \* Login: useState('login')
  loginButton,    \* the submit button of the login form
  signupButton,   \* the submit button of the signup form
  login,          \* the pending login attempt (closure of handleSubmit)
  signup,         \* the pending signup attempt (closure of handleSubmit)
  alerts,         \* the alert() dialogs the latest step has raised
  doctorName,     \* Overall: useState(''), the name in 'Welcome, {doctorName}'
  selectedRole,   \* Login: useState(''), the value of the role select
  userIdLabel,    \* textContent of the label #userIdLabel
  userIdInput,    \* [placeholder, type] of the input #userIdInput
  users,          \* AdminDashboard: the users prop
  onDeleteUserCalls,  \* the calls of the onDeleteUser prop
  uncaughtErrors, \* the errors no handler has caught
  isCreateDialogOpen,  \* AdminDashboard: useState(false)
  createForm,     \* the fields of the create-doctor form, {} while no form exists
  showAlert,      \* AdminDashboard: useState(false)
  alertMessage,   \* AdminDashboard: useState('')
  doctors,        \* AdminDashboard: useState([]), the displayed rows
  subscribed,     \* the onSnapshot listener is attached
  snapshots,      \* snapshots the store has queued for the listener
  bannerTimers,   \* time left of the pending setShowAlert(false) timers
  pendingOps      \* bag of the console's addDoc / deleteDoc calls in flight

storeVars == <<db, usedIds>>
widgetVars == <<activeTab, loginButton, signupButton, login, signup>>
adminVars == <<isCreateDialogOpen, createForm, showAlert, alertMessage, doctors,
               subscribed, snapshots, bannerTimers, pendingOps>>
roleVars == <<selectedRole, userIdLabel, userIdInput>>
propVars == <<users, onDeleteUserCalls, uncaughtErrors>>
vars == <<location, db, usedIds, localStorage, widgetVars, alerts, doctorName,
          roleVars, propVars, adminVars>>

(***************************************************************************)
(* The store.                                                              *)
(***************************************************************************)
\* Variant: the query filters on the identifier only.
QueryDocsByIdOnly(coll, field, userId, password) ==
  { d \in db[coll] : d.data[field] = userId }

\* query(collection, where(field, '==', userId), where('password', '==', password))
QueryDocs(coll, field, userId, password) ==
  { d \in db[coll] : d.data[field] = userId /\ d.data.password = password }

\* Variant: the last entry of the result.
LastDoc(docs) == CHOOSE d \in docs : \A e \in docs : IdIndex(d.id) >= IdIndex(e.id)

\* querySnapshot.docs[0]: results come ordered by document identifier.
FirstDoc(docs) == CHOOSE d \in docs : \A e \in docs : IdIndex(d.id) <= IdIndex(e.id)

\* addDoc: the store assigns an identifier it has not assigned before.  The
\* program reads the identifiers of doctor documents only, so for the admins
\* collection the model takes the first unused one.
FreshIds(coll) ==
  LET unused == DocIds \ usedIds[coll] IN
  IF Cardinality(usedIds.admins) + Cardinality(usedIds.doctors) >= MaxDocs
  THEN {}
  ELSE IF coll = "doctors" THEN unused
  ELSE {id \in unused : \A other \in unused : IdIndex(id) <= IdIndex(other)}

(***************************************************************************)
(* localStorage and JSON.                                                  *)
(***************************************************************************)
\* JSON.stringify(obj): the text lists each property of obj with its value.
JSONstringify(obj) == { [key |-> k, value |-> obj[k]] : k \in DOMAIN obj }

\* localStorage.getItem(key): the stored values, none when the key is absent.
getItem(store, key) == {e.value : e \in {x \in store : x.key = key}}

setItem(store, key, value) ==
  {e \in store : e.key # key} \cup {[key |-> key, value |-> value]}

\* JSON.parse(text): the object whose properties the text lists.
JSONparse(text) ==
  [k \in {e.key : e \in text} |-> CHOOSE v \in {e.value : e \in text} :
                                      [key |-> k, value |-> v] \in text]

MarkerWithoutId(doc) == doc.data

\* { ...doctorData, id: querySnapshot.docs[0].id }
SessionMarker(doc) ==
  [f \in (DOMAIN doc.data) \cup {"id"} |->
     IF f = "id" THEN doc.id ELSE doc.data[f]]

(***************************************************************************)
(* Initial state of a freshly mounted component.                           *)
(***************************************************************************)
\* <label id="userIdLabel"> and <input id="userIdInput"> as Login renders
\* them.  The pictograph that starts each label text is left out.
RenderedLabel == "Licence ID"
RenderedInput == [placeholder |-> "Enter licence Id", type |-> "text"]

IdleLogin ==
  [pc |-> "idle", role |-> "", userId |-> "", password |-> "",
   originalText |-> "", timer |-> 0, message |-> "", route |-> ""]

IdleSignup ==
  [pc |-> "idle", originalText |-> "", timer |-> 0, request |-> {}]

FreshButton(label) == [textContent |-> label, disabled |-> FALSE]

\* snapshot.docs of the doctors collection, ordered by document identifier.
RECURSIVE SortedDocs(_)
SortedDocs(docs) ==
  IF docs = {} THEN <<>>
  ELSE <<FirstDoc(docs)>> \o SortedDocs(docs \ {FirstDoc(docs)})

Init ==
  /\ location = "/"
  /\ db = [admins |-> {}, doctors |-> {}]
  /\ usedIds = [admins |-> {}, doctors |-> {}]
  /\ localStorage = {}
  /\ activeTab = "login"
  /\ loginButton = FreshButton(SignInLabel)
  /\ signupButton = FreshButton(SignUpLabel)
  /\ login = IdleLogin
  /\ signup = IdleSignup
  /\ alerts = << >>
  /\ doctorName = ""
  /\ selectedRole = ""
  /\ userIdLabel = RenderedLabel
  /\ userIdInput = RenderedInput
  /\ users = << >>
  /\ onDeleteUserCalls = << >>
  /\ uncaughtErrors = {}
  /\ isCreateDialogOpen = FALSE
  /\ createForm = {}
  /\ showAlert = FALSE
  /\ alertMessage = ""
  /\ doctors = <<>>
  /\ subscribed = FALSE
  /\ snapshots = <<>>
  /\ bannerTimers = <<>>
  /\ pendingOps = EmptyBag

(***************************************************************************)
(* Browser.                                                                *)
(***************************************************************************)
\* Login mounts: useState('login'), the two forms as rendered.
MountLogin ==
  /\ activeTab' = "login"
  /\ loginButton' = FreshButton(SignInLabel)
  /\ signupButton' = FreshButton(SignUpLabel)
  /\ selectedRole' = ""
  /\ userIdLabel' = RenderedLabel
  /\ userIdInput' = RenderedInput

\* AdminDashboard's initial state.  When the route is /admindashboard the
\* component mounts and its effect attaches the listener, for which the store
\* queues a first snapshot of the collection.
MountAdminDashboard(route) ==
  /\ isCreateDialogOpen' = FALSE
  /\ createForm' = {}
  /\ showAlert' = FALSE
  /\ alertMessage' = ""
  /\ doctors' = <<>>
  /\ subscribed' = (route = "/admindashboard")
  /\ snapshots' = IF route = "/admindashboard"
                  THEN <<SortedDocs(db.doctors)>> ELSE <<>>
  /\ UNCHANGED propVars

\* Variant: the greeting takes the marker's doctorId.
GreetingById(store) ==
  LET items == getItem(store, "currentUser") IN
  IF items = {} THEN ""
  ELSE LET currentUser == JSONparse(CHOOSE text \in items : TRUE) IN
       IF "doctorId" \in DOMAIN currentUser THEN currentUser.doctorId ELSE ""

\* Overall's effect: currentUser = JSON.parse(localStorage.getItem(
\* 'currentUser')); if (currentUser && currentUser.name) setDoctorName(
\* currentUser.name).  The result is the value of doctorName after the effect:
\* '' (its initial value) when the key is absent (getItem returns null, which
\* parses to null) or the name is missing or empty.
Greeting(store) ==
  LET items == getItem(store, "currentUser") IN
  IF items = {} THEN ""
  ELSE LET currentUser == JSONparse(CHOOSE text \in items : TRUE) IN
       IF "name" \in DOMAIN currentUser /\ currentUser.name # ""
       THEN currentUser.name ELSE ""

\* Dashboard mounts on /dashboard with its section 'dashboard', which renders
\* Overall; Overall's effect runs once after the mount.  On every other route
\* no Overall exists.
MountDashboard(route) ==
  doctorName' = IF route = "/dashboard" THEN Greeting(localStorage) ELSE ""

\* A full page load (address bar, reload, window.location.href): the script
\* context of the old page, with its timers and callbacks, is discarded and
\* the route's component is mounted afresh.  localStorage and the store stay.
LoadPage(route) ==
  /\ location' = route
  /\ MountLogin
  /\ login' = IdleLogin
  /\ signup' = IdleSignup
  /\ MountAdminDashboard(route)
  /\ MountDashboard(route)
  /\ bannerTimers' = <<>>
  /\ pendingOps' = EmptyBag

PageLoad(route) ==
  /\ LoadPage(route)
  /\ alerts' = << >>
  /\ UNCHANGED <<db, usedIds, localStorage>>

\* The time left of a timer after TimerDelay more milliseconds.
Elapse(left) == IF left > TimerDelay THEN left - TimerDelay ELSE 0

\* A timer with `left` milliseconds to go may run its callback.
TimerDue(left) == left = 0

\* The timers that are pending, by the time they have left.
PendingTimers ==
  (IF login.pc \in {"navTimer", "failTimer"} THEN {login.timer} ELSE {})
  \cup (IF signup.pc = "timer" THEN {signup.timer} ELSE {})
  \cup {bannerTimers[i] : i \in 1..Len(bannerTimers)}

\* TimerDelay milliseconds pass while some timer is waiting.
Tick ==
  /\ \E left \in PendingTimers : left > 0
  /\ login' = [login EXCEPT !.timer = Elapse(@)]
  /\ signup' = [signup EXCEPT !.timer = Elapse(@)]
  /\ bannerTimers' = [i \in 1..Len(bannerTimers) |-> Elapse(bannerTimers[i])]
  /\ alerts' = << >>
  /\ UNCHANGED <<location, doctorName, roleVars, propVars, storeVars, localStorage, activeTab, loginButton,
                 signupButton, isCreateDialogOpen, createForm, showAlert,
                 alertMessage, doctors, subscribed, snapshots, pendingOps>>

\* The route of the history entry the Back button returns to: the landing
\* page, whose link leads to /login.  (The admin leaving the console by its
\* Logout link is taken to return to it by a page load.)
HistoryRoutes == {"/"}

\* Variant: unmounting drops the pending attempt.
clearOnUnmount(attempt) == [attempt EXCEPT !.pc = "idle", !.timer = 0]

\* What unmounting Login does to a pending attempt: Login's one effect
\* returns no cleanup function, so nothing is cleared.
effectCleanup(attempt) == attempt

\* The browser's Back button on /login, the previous history entry being one
\* of the running application: <Router> takes the change of route, Login
\* unmounts and the entry's component mounts.  Nothing is unloaded: the store
\* calls and timers of Login.handleSubmit stay pending, and their callbacks
\* hold on to the button, now detached.
historyBack(route) ==
  /\ location = "/login"
  /\ route \in HistoryRoutes
  /\ location' = route
  /\ MountAdminDashboard(route)
  /\ MountDashboard(route)
  /\ bannerTimers' = << >>
  /\ login' = effectCleanup(login)
  /\ signup' = effectCleanup(signup)
  /\ alerts' = << >>
  /\ UNCHANGED <<storeVars, localStorage, activeTab, loginButton,
                 signupButton, roleVars, propVars, pendingOps>>

showLogin ==
  /\ location = "/login"
  /\ activeTab' = "login"
  /\ alerts' = << >>
  /\ UNCHANGED <<location, doctorName, roleVars, propVars, storeVars, localStorage, loginButton,
                 signupButton, login, signup, adminVars>>

showSignup ==
  /\ location = "/login"
  /\ activeTab' = "signup"
  /\ alerts' = << >>
  /\ UNCHANGED <<location, doctorName, roleVars, propVars, storeVars, localStorage, loginButton,
                 signupButton, login, signup, adminVars>>

(***************************************************************************)
(* Login.handleSubmit, login form.                                         *)
(***************************************************************************)
\* Variant: the branch is chosen by the role alone, with no literal pair.
BranchByRole(role, userId, password) ==
  IF role = "doctor" THEN "doctor" ELSE "admin"

\* Variant: role user is also let in with the pair doctor123/password.
LoginBranchTwoPairs(role, userId, password) ==
  IF role = "doctor" THEN "doctor"
  ELSE IF role = "user" /\ (\/ (userId = "user1234" /\ password = "1234")
                            \/ (userId = "doctor123" /\ password = "password"))
       THEN "literal"
  ELSE IF role = "admin" THEN "admin"
  ELSE "fallback"

\* The branch of the if / else-if chain a submission takes.
LoginBranch(role, userId, password) ==
  IF role = "doctor" THEN "doctor"
  ELSE IF userId = "user1234" /\ password = "1234" /\ role = "user" THEN "literal"
  ELSE IF role = "admin" THEN "admin"
  ELSE "fallback"

\* Variant: the admin query filters on firstName.
QueryFieldFirstName(branch) == IF branch = "doctor" THEN "doctorId" ELSE "firstName"

\* collection(db, ...) and the identifier field of where(...) in a branch.
QueryCollection(branch) == IF branch = "doctor" THEN "doctors" ELSE "admins"
QueryField(branch) == IF branch = "doctor" THEN "doctorId" ELSE "email"

\* Variant: every branch redirects to the doctor dashboard.
AlwaysDashboard(branch) == "/dashboard"

\* window.location.href of a branch's success callback.
RedirectTarget(branch) ==
  IF branch = "doctor" THEN "/dashboard"
  ELSE IF branch = "literal" THEN "/user"
  ELSE "/admindashboard"

\* Variant: an empty result is reported like a query exception.
GenericAlert(branch) == "Login error. Please try again."

\* The alert of a branch's empty-result callback.
NotFoundAlert(branch) ==
  IF branch = "doctor" THEN "Invalid Doctor ID or password!"
  ELSE IF branch = "admin" THEN "Invalid admin credentials!"
  ELSE "Invalid credentials or role mismatch!"

QueryErrorAlert == "Login error. Please try again."

\* setTimeout(callback, 1500): the time the new timer has left.
TimerDeadline == TimerDelay

\* The if / else-if chain of handleRoleChange: what it writes to the label
\* and the input for a value of the select.
IdentifierField(role) ==
  IF role = "admin"
  THEN [label |-> "Email", placeholder |-> "Enter your email", type |-> "email"]
  ELSE IF role = "doctors"
  THEN [label |-> "Doctor ID",
        placeholder |-> "Enter Doctor ID (e.g., DR8A3F2B1C)", type |-> "text"]
  ELSE [label |-> "Licence ID", placeholder |-> "Enter licence Id",
        type |-> "text"]

\* The values of the options of <select name="role">.
RoleOptions == {"", "doctor", "user", "admin"}

\* onChange={handleRoleChange} of the role select of the login form.
handleRoleChange(role) ==
  /\ location = "/login"
  /\ activeTab = "login"
  /\ role \in RoleOptions
  /\ role # selectedRole
  /\ selectedRole' = role
  /\ userIdLabel' = IdentifierField(role).label
  /\ userIdInput' = [placeholder |-> IdentifierField(role).placeholder,
                     type |-> IdentifierField(role).type]
  /\ alerts' = << >>
  /\ UNCHANGED <<location, doctorName, propVars, storeVars, localStorage,
                 widgetVars, adminVars>>

\* The form can be submitted: it is shown and its submit button is enabled.
CanSubmit(tab, button) ==
  /\ location = "/login"
  /\ activeTab = tab
  /\ ~button.disabled

handleSubmitLogin(role, userId, password) ==
  LET branch == LoginBranch(role, userId, password)
      originalText == loginButton.textContent
      attempt == [IdleLogin EXCEPT !.role = role, !.userId = userId,
                                   !.password = password,
                                   !.originalText = originalText]
  IN
  /\ CanSubmit("login", loginButton)
  /\ loginButton' = [textContent |-> "Signing In...", disabled |-> TRUE]
  /\ login' =
       IF branch \in {"doctor", "admin"}
       THEN [attempt EXCEPT !.pc = "query"]
       ELSE IF branch = "literal"
       THEN [attempt EXCEPT !.pc = "navTimer", !.timer = TimerDeadline,
                            !.route = RedirectTarget(branch)]
       ELSE [attempt EXCEPT !.pc = "failTimer", !.timer = TimerDeadline,
                            !.message = NotFoundAlert(branch)]
  /\ alerts' = << >>
  /\ UNCHANGED <<location, doctorName, roleVars, propVars, storeVars, localStorage, activeTab,
                 signupButton, signup, adminVars>>

\* Variant: the admin branch stores the matched record too.
StoredForEveryRole(branch, docs) ==
  << [key |-> "currentUser",
      value |-> JSONstringify(SessionMarker(FirstDoc(docs)))] >>

\* What the success callback of a branch stores before it sets the redirect
\* timer: the doctor branch stores currentUser, the admin branch nothing.
StoredOnSuccess(branch, docs) ==
  IF branch = "doctor"
  THEN << [key |-> "currentUser",
           value |-> JSONstringify(SessionMarker(FirstDoc(docs)))] >>
  ELSE << >>

\* Variant: a success callback that stores nothing clears the storage.
setItemsOrClear(store, writes) ==
  IF writes = << >> THEN {}
  ELSE setItem(store, Head(writes).key, Head(writes).value)

RECURSIVE setItems(_, _)
setItems(store, writes) ==
  IF writes = << >> THEN store
  ELSE setItems(setItem(store, Head(writes).key, Head(writes).value), Tail(writes))

\* The query the pending attempt has sent, answered from the store as it is.
PendingQueryDocs ==
  LET branch == LoginBranch(login.role, login.userId, login.password)
  IN QueryDocs(QueryCollection(branch), QueryField(branch),
               login.userId, login.password)

\* getDocs(...).then((querySnapshot) => ...)
getDocsThen ==
  LET branch == LoginBranch(login.role, login.userId, login.password)
      docs == PendingQueryDocs
      done == [login EXCEPT !.timer = TimerDeadline]
  IN
  /\ login.pc = "query"
  /\ IF docs # {}
     THEN /\ localStorage' = setItems(localStorage, StoredOnSuccess(branch, docs))
          /\ login' = [done EXCEPT !.pc = "navTimer",
                                   !.route = RedirectTarget(branch)]
     ELSE /\ localStorage' = localStorage
          /\ login' = [done EXCEPT !.pc = "failTimer",
                                   !.message = NotFoundAlert(branch)]
  /\ alerts' = << >>
  /\ UNCHANGED <<location, doctorName, roleVars, propVars, storeVars, activeTab, loginButton,
                 signupButton, signup, adminVars>>

\* getDocs(...).catch((error) => ...)
getDocsCatch ==
  /\ login.pc = "query"
  /\ login' = [login EXCEPT !.pc = "failTimer", !.timer = TimerDeadline,
                            !.message = QueryErrorAlert]
  /\ alerts' = << >>
  /\ UNCHANGED <<location, doctorName, roleVars, propVars, storeVars, localStorage, activeTab, loginButton,
                 signupButton, signup, adminVars>>

\* Variant: the label is restored and the button stays disabled.
DisabledButton(originalText) == [textContent |-> originalText, disabled |-> TRUE]

\* button.textContent = originalText; button.disabled = false;
RestoredButton(originalText) == [textContent |-> originalText, disabled |-> FALSE]

\* The failure timer's callback: alert(...), then the button is restored.
loginFailureTimer ==
  /\ login.pc = "failTimer"
  /\ TimerDue(login.timer)
  /\ alerts' = <<login.message>>
  /\ loginButton' = RestoredButton(login.originalText)
  /\ login' = IdleLogin
  /\ UNCHANGED <<location, doctorName, roleVars, propVars, storeVars, localStorage, activeTab,
                 signupButton, signup, adminVars>>

\* The success timer's callback: window.location.href = route.
loginRedirectTimer ==
  /\ login.pc = "navTimer"
  /\ TimerDue(login.timer)
  /\ LoadPage(login.route)
  /\ alerts' = << >>
  /\ UNCHANGED <<storeVars, localStorage>>

(***************************************************************************)
(* Login.handleSubmit, admin signup form.                                  *)
(***************************************************************************)
FirstNames == {"Asha"}
LastNames == {"Rao"}
SignupPasswords == {"pw123"}

PasswordMismatchAlert == "Passwords do not match!"
SignupSuccessAlert ==
  "Admin account created successfully! Use your email and password to login."
SignupFailureAlert == "Error creating account. Please try again."

\* Variant: the licence identifier without its prefix.
adminDataPlainLicense(firstName, lastName, email, password, t) ==
  [firstName |-> firstName, lastName |-> lastName, email |-> email,
   password |-> password, role |-> "admin", createdAt |-> toISOString(t),
   licenseId |-> ToString(t)]

\* const adminData = { firstName, lastName, email, password, role, createdAt,
\* licenseId }; t is the wall clock new Date() and Date.now() read.
adminData(firstName, lastName, email, password, t) ==
  [firstName |-> firstName, lastName |-> lastName, email |-> email,
   password |-> password, role |-> "admin", createdAt |-> toISOString(t),
   licenseId |-> "ADMIN_" \o ToString(t)]

\* Variant: the comparison is skipped.
NeverDiffer(password, confirmPassword) == FALSE

\* if (password !== confirmPassword) { alert(...); return; }
PasswordsDiffer(password, confirmPassword) == password # confirmPassword

handleSubmitSignup(firstName, lastName, email, password, confirmPassword, t) ==
  /\ CanSubmit("signup", signupButton)
  /\ IF PasswordsDiffer(password, confirmPassword)
     THEN /\ alerts' = <<PasswordMismatchAlert>>
          /\ UNCHANGED <<signupButton, signup>>
     ELSE /\ alerts' = << >>
          /\ signupButton' = [textContent |-> "Creating Admin Account...",
                              disabled |-> TRUE]
          /\ signup' = [IdleSignup EXCEPT
                          !.pc = "addDoc",
                          !.originalText = signupButton.textContent,
                          !.request = {adminData(firstName, lastName, email,
                                                 password, t)}]
  /\ UNCHANGED <<location, doctorName, roleVars, propVars, storeVars, localStorage, activeTab, loginButton,
                 login, adminVars>>

\* The store accepts the addDoc and assigns the document an identifier;
\* .then(() => setTimeout(..., 1500)).
signupAddDocThen(id) ==
  /\ signup.pc = "addDoc"
  /\ id \in FreshIds("admins")
  /\ db' = [db EXCEPT !.admins =
              @ \cup {[id |-> id, data |-> d] : d \in signup.request}]
  /\ usedIds' = [usedIds EXCEPT !.admins = @ \cup {id}]
  /\ signup' = [signup EXCEPT !.pc = "timer", !.timer = TimerDeadline,
                              !.request = {}]
  /\ alerts' = << >>
  /\ UNCHANGED <<location, doctorName, roleVars, propVars, localStorage, activeTab, loginButton,
                 signupButton, login, adminVars>>

\* .catch((error) => { alert(...); button.textContent = originalText;
\* button.disabled = false; })
signupAddDocCatch ==
  /\ signup.pc = "addDoc"
  /\ alerts' = <<SignupFailureAlert>>
  /\ signupButton' = RestoredButton(signup.originalText)
  /\ signup' = IdleSignup
  /\ UNCHANGED <<location, doctorName, roleVars, propVars, storeVars, localStorage, activeTab, loginButton,
                 login, adminVars>>

\* Variant: the success callback selects the signup tab.
TabSignup == "signup"

\* The tab the success callback selects: setActiveTab('login').
TabAfterSignup == "login"

\* The timer callback of a successful signup.  activeTab is the value last
\* handed to setActiveTab; no view renders it while Login is unmounted, and
\* Login mounts with 'login'.
signupSuccessTimer ==
  /\ signup.pc = "timer"
  /\ TimerDue(signup.timer)
  /\ alerts' = <<SignupSuccessAlert>>
  /\ signupButton' = RestoredButton(signup.originalText)
  /\ activeTab' = TabAfterSignup
  /\ signup' = IdleSignup
  /\ UNCHANGED <<location, doctorName, roleVars, propVars, storeVars, localStorage, loginButton, login,
                 adminVars>>

(***************************************************************************)
(* AdminDashboard.                                                         *)
(***************************************************************************)
Mounted == location = "/admindashboard"

\* currentUser = { name: 'Admin User' }: App renders <AdminDashboard/> with
\* no props.
currentUserName == "Admin User"

\* What the admin can type into the create-doctor form.
EmptyForm ==
  [name |-> "", email |-> "", username |-> "", password |-> "",
   specialization |-> ""]
DoctorForms ==
  [name : {"Dr Rao"}, email : {"d@b.com"}, username : {"drrao"},
   password : {"pw123"}, specialization : {""}]

\* The inputs marked `required` are filled in.
FormValid(f) ==
  f.name # "" /\ f.email # "" /\ f.username # "" /\ f.password # ""

\* { id: doc.id, ...doc.data() }
\* Variant: the row is keyed by the record's doctorId field.
RowKeyedByDoctorId(doc) ==
  [f \in (DOMAIN doc.data) \cup {"id"} |->
     IF f = "id" THEN doc.data.doctorId ELSE doc.data[f]]

Row(doc) ==
  [f \in (DOMAIN doc.data) \cup {"id"} |->
     IF f \in DOMAIN doc.data THEN doc.data[f] ELSE doc.id]

RowsOf(docs) == [i \in 1..Len(docs) |-> Row(docs[i])]

\* The store queues a snapshot of the doctors collection for an attached
\* listener whenever the collection changes, and hands the listener the
\* snapshot of one change before it applies the next change.
ListenerServed == snapshots = << >>

\* Variant: the store keeps notifying a listener that has been detached.
NotifyDetached(newDocs) ==
  IF newDocs # db.doctors
  THEN snapshots' = Append(snapshots, SortedDocs(newDocs))
  ELSE snapshots' = snapshots

\* The store queues a snapshot for the attached listener when the collection
\* changes.
Notify(newDocs) ==
  IF subscribed /\ newDocs # db.doctors
  THEN snapshots' = Append(snapshots, SortedDocs(newDocs))
  ELSE snapshots' = snapshots

\* Bound of the model: a handler that starts a store call runs only while
\* fewer than MaxPending calls and banner timers are pending.
PendingRoom == BagCardinality(pendingOps) + Len(bannerTimers) < MaxPending

\* onSnapshot(collection(db, 'doctors'), (snapshot) => setDoctors(...))
onSnapshotCallback ==
  /\ subscribed
  /\ snapshots # << >>
  /\ doctors' = RowsOf(Head(snapshots))
  /\ snapshots' = Tail(snapshots)
  /\ alerts' = << >>
  /\ UNCHANGED <<location, doctorName, roleVars, propVars, storeVars, localStorage, widgetVars,
                 isCreateDialogOpen, createForm, showAlert, alertMessage,
                 subscribed, bannerTimers, pendingOps>>

\* onClick={() => setIsCreateDialogOpen(true)}: the modal and its form render.
openCreateDialog ==
  /\ Mounted
  /\ ~isCreateDialogOpen
  /\ isCreateDialogOpen' = TRUE
  /\ createForm' = {EmptyForm}
  /\ alerts' = << >>
  /\ UNCHANGED <<location, doctorName, roleVars, propVars, storeVars, localStorage, widgetVars,
                 showAlert, alertMessage, doctors, subscribed, snapshots,
                 bannerTimers, pendingOps>>

\* onClick={() => setIsCreateDialogOpen(false)} of the X and Cancel buttons.
closeCreateDialog ==
  /\ Mounted
  /\ isCreateDialogOpen
  /\ isCreateDialogOpen' = FALSE
  /\ createForm' = {}
  /\ alerts' = << >>
  /\ UNCHANGED <<location, doctorName, roleVars, propVars, storeVars, localStorage, widgetVars,
                 showAlert, alertMessage, doctors, subscribed, snapshots,
                 bannerTimers, pendingOps>>

\* The admin fills in the form.
typeCreateForm(f) ==
  /\ Mounted
  /\ isCreateDialogOpen
  /\ createForm # {f}
  /\ createForm' = {f}
  /\ alerts' = << >>
  /\ UNCHANGED <<location, doctorName, roleVars, propVars, storeVars, localStorage, widgetVars,
                 isCreateDialogOpen, showAlert, alertMessage, doctors,
                 subscribed, snapshots, bannerTimers, pendingOps>>

\* Variant: the record is written with role 'user'.
doctorDataAsUser(doctorId, f, t) ==
  [doctorId |-> doctorId, name |-> f.name, email |-> f.email,
   username |-> f.username, password |-> f.password,
   specialization |-> f.specialization, role |-> "user",
   createdAt |-> toISOString(t), createdBy |-> currentUserName]

\* const doctorData = { doctorId, name, ..., role: 'doctor', createdAt, createdBy }
doctorData(doctorId, f, t) ==
  [doctorId |-> doctorId, name |-> f.name, email |-> f.email,
   username |-> f.username, password |-> f.password,
   specialization |-> f.specialization, role |-> "doctor",
   createdAt |-> toISOString(t), createdBy |-> currentUserName]

\* generateDoctorId() for each value Math.random() returns.
GeneratedId == [r \in RandomSource |-> generateDoctorId(r)]

\* handleCreateDoctor up to `await addDoc(...)`; r is the value Math.random()
\* returns and t the wall clock new Date() reads.
handleCreateDoctor(r, t) ==
  /\ Mounted
  /\ isCreateDialogOpen
  /\ PendingRoom
  /\ \E f \in createForm :
       /\ FormValid(f)
       /\ pendingOps' = pendingOps (+) SetToBag(
            {[kind |-> "addDoc", data |-> doctorData(GeneratedId[r], f, t),
              id |-> "", name |-> f.name]})
  /\ alerts' = << >>
  /\ UNCHANGED <<location, doctorName, roleVars, propVars, storeVars, localStorage, widgetVars,
                 isCreateDialogOpen, createForm, showAlert, alertMessage,
                 doctors, subscribed, snapshots, bannerTimers>>

\* The calls in flight once the call `op` has been answered.
Settled(op) == pendingOps (-) SetToBag({op})

\* setAlertMessage(msg); setShowAlert(true); setTimeout(() =>
\* setShowAlert(false), 3000).  State setters of an unmounted component do
\* nothing, and neither does the timer set for it, which is not kept.
ShowBanner(msg) ==
  /\ alertMessage' = IF Mounted THEN msg ELSE alertMessage
  /\ showAlert' = IF Mounted THEN TRUE ELSE showAlert
  /\ bannerTimers' = IF Mounted THEN Append(bannerTimers, BannerDelay)
                     ELSE bannerTimers

CreatedBanner(name, doctorId) ==
  "Doctor " \o name \o " created successfully with ID: " \o doctorId
DeletedBanner(name) == "Doctor " \o name \o " has been deleted"
CreateErrorBanner == "Error creating doctor account"
DeleteErrorBanner == "Error deleting doctor"

\* The store accepts the addDoc; the rest of the try block runs.
createDoctorThen(op, id) ==
  /\ BagIn(op, pendingOps)
  /\ op.kind = "addDoc"
  /\ ListenerServed
  /\ id \in FreshIds("doctors")
  /\ LET newDocs == db.doctors \cup {[id |-> id, data |-> op.data]}
     IN /\ db' = [db EXCEPT !.doctors = newDocs]
        /\ usedIds' = [usedIds EXCEPT !.doctors = @ \cup {id}]
        /\ Notify(newDocs)
        /\ ShowBanner(CreatedBanner(op.data.name, op.data.doctorId))
  /\ isCreateDialogOpen' = FALSE
  /\ createForm' = {}
  /\ pendingOps' = Settled(op)
  /\ alerts' = << >>
  /\ UNCHANGED <<location, doctorName, roleVars, propVars, localStorage, widgetVars, doctors,
                 subscribed>>

\* Variant: the catch block also closes the dialog and resets the form.
createDoctorCatchClosing(op) ==
  /\ BagIn(op, pendingOps)
  /\ op.kind = "addDoc"
  /\ ShowBanner(CreateErrorBanner)
  /\ isCreateDialogOpen' = FALSE
  /\ createForm' = {}
  /\ pendingOps' = Settled(op)
  /\ alerts' = << >>
  /\ UNCHANGED <<location, doctorName, roleVars, propVars, storeVars, localStorage, widgetVars,
                 doctors, subscribed, snapshots>>

\* addDoc rejects; the catch block runs.
createDoctorCatch(op) ==
  /\ BagIn(op, pendingOps)
  /\ op.kind = "addDoc"
  /\ ShowBanner(CreateErrorBanner)
  /\ pendingOps' = Settled(op)
  /\ alerts' = << >>
  /\ UNCHANGED <<location, doctorName, roleVars, propVars, storeVars, localStorage, widgetVars,
                 isCreateDialogOpen, createForm, doctors, subscribed, snapshots>>

\* onClick={() => handleDeleteDoctor(doctor.id, doctor.name)} of row k, up to
\* `await deleteDoc(doc(db, 'doctors', doctorId))`.
handleDeleteDoctor(k) ==
  /\ Mounted
  /\ k \in 1..Len(doctors)
  /\ PendingRoom
  /\ pendingOps' = pendingOps (+) SetToBag(
       {[kind |-> "deleteDoc", data |-> << >>, id |-> doctors[k].id,
         name |-> doctors[k].name]})
  /\ alerts' = << >>
  /\ UNCHANGED <<location, doctorName, roleVars, propVars, storeVars, localStorage, widgetVars,
                 isCreateDialogOpen, createForm, showAlert, alertMessage,
                 doctors, subscribed, snapshots, bannerTimers>>

\* Variant: the delete leaves the collection as it is.
DeleteNothing(docs, id) == docs

\* Variant: the delete also blanks the name of the documents it leaves.
DeleteAndTouch(docs, id) ==
  { [d EXCEPT !.data.name = ""] : d \in { e \in docs : e.id # id } }

\* Variant: a delete of a missing document removes the first one instead.
DeleteOrFirst(docs, id) ==
  IF \E d \in docs : d.id = id THEN { d \in docs : d.id # id }
  ELSE IF docs = {} THEN docs
  ELSE docs \ {FirstDoc(docs)}

\* deleteDoc(doc(db, 'doctors', id)): the collection without that document.
DocsAfterDelete(docs, id) == { d \in docs : d.id # id }

\* The store performs the delete; the rest of the try block runs.
deleteDoctorThen(op) ==
  /\ BagIn(op, pendingOps)
  /\ op.kind = "deleteDoc"
  /\ ListenerServed
  /\ LET newDocs == DocsAfterDelete(db.doctors, op.id)
     IN /\ db' = [db EXCEPT !.doctors = newDocs]
        /\ Notify(newDocs)
        /\ ShowBanner(DeletedBanner(op.name))
  /\ pendingOps' = Settled(op)
  /\ alerts' = << >>
  /\ UNCHANGED <<location, doctorName, roleVars, propVars, usedIds, localStorage, widgetVars,
                 isCreateDialogOpen, createForm, doctors, subscribed>>

\* deleteDoc rejects; the catch block runs.
deleteDoctorCatch(op) ==
  /\ BagIn(op, pendingOps)
  /\ op.kind = "deleteDoc"
  /\ ShowBanner(DeleteErrorBanner)
  /\ pendingOps' = Settled(op)
  /\ alerts' = << >>
  /\ UNCHANGED <<location, doctorName, roleVars, propVars, storeVars, localStorage, widgetVars,
                 isCreateDialogOpen, createForm, doctors, subscribed, snapshots>>

\* setTimeout(() => setShowAlert(false), 3000): the oldest pending timer.
bannerTimer ==
  /\ bannerTimers # << >>
  /\ TimerDue(Head(bannerTimers))
  /\ showAlert' = FALSE
  /\ bannerTimers' = Tail(bannerTimers)
  /\ alerts' = << >>
  /\ UNCHANGED <<location, doctorName, roleVars, propVars, storeVars, localStorage, widgetVars,
                 isCreateDialogOpen, createForm, alertMessage, doctors,
                 subscribed, snapshots, pendingOps>>

\* const patients = users.filter(user => user.role === 'patient')
patients == SelectSeq(users, LAMBDA user : user.role = "patient")

\* What evaluating an identifier that nothing declares throws.
ReferenceError(identifier) ==
  "ReferenceError: " \o identifier \o " is not defined"

\* onClick={() => handleDeleteUser(patient.id, patient.name)} of patient row
\* k.  The module declares and imports no handleDeleteUser, so evaluating the
\* callee throws before any call is made; nothing catches it.
deleteUserClick(k) ==
  /\ Mounted
  /\ k \in 1..Len(patients)
  /\ uncaughtErrors' = uncaughtErrors \cup {ReferenceError("handleDeleteUser")}
  /\ alerts' = << >>
  /\ UNCHANGED <<location, doctorName, roleVars, users, onDeleteUserCalls,
                 storeVars, localStorage, widgetVars, adminVars>>

\* <Link to="/login"> around the Logout button: a client-side route change.
\* AdminDashboard unmounts (its effect's cleanup calls unsubscribe()) and
\* Login mounts.  The banner timers still pending can only call a setter of
\* the unmounted component, which does nothing, so they are not kept.  The
\* store calls in flight stay in flight: their callbacks close over the
\* unmounted component and still run when the store answers.
logoutLink ==
  /\ Mounted
  /\ location' = "/login"
  /\ MountLogin
  /\ MountAdminDashboard("/login")
  /\ MountDashboard("/login")
  /\ bannerTimers' = << >>
  /\ alerts' = << >>
  /\ UNCHANGED <<storeVars, localStorage, login, signup, pendingOps>>

Next ==
  \/ \E route \in Routes : PageLoad(route)
  \/ Tick
  \/ \E route \in HistoryRoutes : historyBack(route)
  \/ showLogin
  \/ showSignup
  \/ \E input \in LoginInputs :
       handleSubmitLogin(input[1], input[2], input[3])
  \/ getDocsThen
  \/ getDocsCatch
  \/ loginFailureTimer
  \/ loginRedirectTimer
  \/ \E fn \in FirstNames, ln \in LastNames, email \in Emails,
        password \in SignupPasswords, confirmPassword \in Passwords,
        t \in Timestamps :
       handleSubmitSignup(fn, ln, email, password, confirmPassword, t)
  \/ \E id \in DocIds : signupAddDocThen(id)
  \/ signupAddDocCatch
  \/ signupSuccessTimer
  \/ onSnapshotCallback
  \/ openCreateDialog
  \/ closeCreateDialog
  \/ \E f \in DoctorForms : typeCreateForm(f)
  \/ \E r \in RandomSource, t \in Timestamps : handleCreateDoctor(r, t)
  \/ \E op \in BagToSet(pendingOps), id \in DocIds : createDoctorThen(op, id)
  \/ \E op \in BagToSet(pendingOps) : createDoctorCatch(op)
  \/ \E k \in 1..MaxDocs : handleDeleteDoctor(k)
  \/ \E op \in BagToSet(pendingOps) : deleteDoctorThen(op)
  \/ \E op \in BagToSet(pendingOps) : deleteDoctorCatch(op)
  \/ bannerTimer
  \/ logoutLink

Spec == Init /\ [][Next]_vars


(***************************************************************************)
(* The login page on its own.  Login and AdminDashboard are never mounted  *)
(* together and share only the store, so the login page is also explored   *)
(* from every doctors collection the console can have left behind.         *)
(***************************************************************************)
\* The doctor documents the console can create.
ConsoleDoctors ==
  {[id |-> id, data |-> doctorData(generateDoctorId(r), f, t)] :
     id \in DocIds, r \in RandomSource, f \in DoctorForms, t \in Timestamps}

\* The doctors collections the console can leave behind.
ConsoleStores ==
  {docs \in SUBSET ConsoleDoctors : \A d, e \in docs : d.id = e.id => d = e}

LoginInit ==
  /\ location = "/login"
  /\ \E docs \in ConsoleStores :
       /\ db = [admins |-> {}, doctors |-> docs]
       /\ usedIds = [admins |-> {}, doctors |-> {d.id : d \in docs}]
  /\ localStorage = {}
  /\ activeTab = "login"
  /\ loginButton = FreshButton(SignInLabel)
  /\ signupButton = FreshButton(SignUpLabel)
  /\ login = IdleLogin
  /\ signup = IdleSignup
  /\ alerts = << >>
  /\ doctorName = ""
  /\ selectedRole = ""
  /\ userIdLabel = RenderedLabel
  /\ userIdInput = RenderedInput
  /\ users = << >>
  /\ onDeleteUserCalls = << >>
  /\ uncaughtErrors = {}
  /\ isCreateDialogOpen = FALSE
  /\ createForm = {}
  /\ showAlert = FALSE
  /\ alertMessage = ""
  /\ doctors = <<>>
  /\ subscribed = FALSE
  /\ snapshots = <<>>
  /\ bannerTimers = <<>>
  /\ pendingOps = EmptyBag

LoginNext ==
  \/ \E route \in Routes : PageLoad(route)
  \/ Tick
  \/ \E route \in HistoryRoutes : historyBack(route)
  \/ showLogin
  \/ showSignup
  \/ \E input \in LoginInputs :
       handleSubmitLogin(input[1], input[2], input[3])
  \/ getDocsThen
  \/ getDocsCatch
  \/ loginFailureTimer
  \/ loginRedirectTimer
  \/ \E fn \in FirstNames, ln \in LastNames, email \in Emails,
        password \in SignupPasswords, confirmPassword \in Passwords,
        t \in Timestamps :
       handleSubmitSignup(fn, ln, email, password, confirmPassword, t)
  \/ \E id \in DocIds : signupAddDocThen(id)
  \/ signupAddDocCatch
  \/ signupSuccessTimer

LoginSpec == LoginInit /\ [][LoginNext]_vars

\* Time passes while a timer waits, and a timer that is due runs its callback.
FairLoginSpec ==
  /\ LoginSpec
  /\ WF_vars(Tick)
  /\ WF_vars(loginFailureTimer)
  /\ WF_vars(signupSuccessTimer)

(***************************************************************************)
(* The login form with its role select.  The specifications above take the *)
(* value of the select as an input of the submission; here the select is   *)
(* state, the user changes it, and a submission reads it (FormData's       *)
(* 'role').                                                                *)
(***************************************************************************)
RoleNext ==
  \/ PageLoad("/login")
  \/ Tick
  \/ showLogin
  \/ showSignup
  \/ \E role \in RoleOptions : handleRoleChange(role)
  \/ \E input \in LoginInputs :
       /\ input[1] = selectedRole
       /\ handleSubmitLogin(input[1], input[2], input[3])
  \/ getDocsThen
  \/ getDocsCatch
  \/ loginFailureTimer
  \/ loginRedirectTimer

RoleSpec == LoginInit /\ [][RoleNext]_vars

(***************************************************************************)
(* The admin console on its own: the admin loads or reloads the console,   *)
(* works in it and leaves by the Logout link.                              *)
(***************************************************************************)
AdminNext ==
  \/ PageLoad("/admindashboard")
  \/ Tick
  \/ onSnapshotCallback
  \/ openCreateDialog
  \/ closeCreateDialog
  \/ \E f \in DoctorForms : typeCreateForm(f)
  \/ \E r \in RandomSource, t \in Timestamps : handleCreateDoctor(r, t)
  \/ \E op \in BagToSet(pendingOps), id \in DocIds : createDoctorThen(op, id)
  \/ \E op \in BagToSet(pendingOps) : createDoctorCatch(op)
  \/ \E k \in 1..MaxDocs : handleDeleteDoctor(k)
  \/ \E op \in BagToSet(pendingOps) : deleteDoctorThen(op)
  \/ \E op \in BagToSet(pendingOps) : deleteDoctorCatch(op)
  \/ bannerTimer
  \/ logoutLink

AdminSpec == Init /\ [][AdminNext]_vars

(***************************************************************************)
(* The admin console as a component: a host renders AdminDashboard with a  *)
(* users prop (App passes none, so under the specifications above the list *)
(* is empty and the patient table has no row).                             *)
(***************************************************************************)
UserAccounts ==
  {[id |-> "u1", name |-> "Asha", role |-> "patient"],
   [id |-> "u2", name |-> "Dr Rao", role |-> "doctor"]}

\* The lists a host can pass: accounts with distinct ids.
UsersProps ==
  {list \in UNION {[1..n -> UserAccounts] : n \in 0..MaxUsers} :
     \A i, j \in 1..Len(list) : list[i].id = list[j].id => i = j}

PatientInit ==
  /\ location = "/"
  /\ db = [admins |-> {}, doctors |-> {}]
  /\ usedIds = [admins |-> {}, doctors |-> {}]
  /\ localStorage = {}
  /\ activeTab = "login"
  /\ loginButton = FreshButton(SignInLabel)
  /\ signupButton = FreshButton(SignUpLabel)
  /\ login = IdleLogin
  /\ signup = IdleSignup
  /\ alerts = << >>
  /\ doctorName = ""
  /\ selectedRole = ""
  /\ userIdLabel = RenderedLabel
  /\ userIdInput = RenderedInput
  /\ users \in UsersProps
  /\ onDeleteUserCalls = << >>
  /\ uncaughtErrors = {}
  /\ isCreateDialogOpen = FALSE
  /\ createForm = {}
  /\ showAlert = FALSE
  /\ alertMessage = ""
  /\ doctors = <<>>
  /\ subscribed = FALSE
  /\ snapshots = <<>>
  /\ bannerTimers = <<>>
  /\ pendingOps = EmptyBag

PatientNext ==
  \/ AdminNext
  \/ \E k \in 1..MaxUsers : deleteUserClick(k)

PatientSpec == PatientInit /\ [][PatientNext]_vars

(***************************************************************************)
(* Properties.                                                             *)
(***************************************************************************)
\* The route the specification gives each role.
RoleRoute(role) ==
  IF role = "doctor" THEN "/dashboard"
  ELSE IF role = "admin" THEN "/admindashboard"
  ELSE "/user"

\* The text of a record's fields as the session marker lists them.
FieldsOf(data) == {[key |-> k, value |-> data[k]] : k \in DOMAIN data}

\* The login attempt in progress has succeeded and waits for its redirect.
LoginSucceeded == login.pc = "navTimer"
\* The login attempt in progress has failed and waits for its alert.
LoginFailed == login.pc = "failTimer"

\* C1: a doctor or admin login whose credentials match exactly one stored
\* record succeeds with the role's route as its target and with currentUser
\* in localStorage holding that record's fields.
ClaimC1 ==
  (LoginSucceeded /\ login.role \in {"doctor", "admin"}
     /\ Cardinality(PendingQueryDocs) = 1)
  => /\ login.route = RoleRoute(login.role)
     /\ \E d \in PendingQueryDocs :
          \E v \in getItem(localStorage, "currentUser") : FieldsOf(d.data) \subseteq v

\* C2: a login with no matching record, or with role user and other than the
\* literal pair, fails: the outcome sets a 1500 ms timer and writes nothing;
\* while the attempt waits nothing is written and it never turns into a
\* redirect; the timer's callback runs when the delay has elapsed, navigates
\* nowhere and restores the button; and the button does get enabled again
\* with its original label.
NoMatchOutcome ==
  (getDocsThen /\ PendingQueryDocs = {})
  => /\ login'.pc = "failTimer"
     /\ login'.timer = 1500
     /\ localStorage' = localStorage
     /\ location' = location
UserMismatchOutcome ==
  (login.pc = "idle" /\ login'.pc # "idle" /\ login'.role = "user"
     /\ ~(login'.userId = "user1234" /\ login'.password = "1234"))
  => /\ login'.pc = "failTimer"
     /\ login'.timer = 1500
     /\ localStorage' = localStorage
     /\ location' = location
FailedStaysFailed ==
  LoginFailed
  => /\ login'.pc \in {"failTimer", "idle"}
     /\ localStorage' = localStorage
     /\ loginButton.disabled
     /\ login.originalText = " Sign In "
FailureCallback ==
  loginFailureTimer
  => /\ login.timer = 0
     /\ location' = location
     /\ localStorage' = localStorage
     /\ loginButton' = [textContent |-> login.originalText, disabled |-> FALSE]
ClaimC2 ==
  /\ [][NoMatchOutcome /\ UserMismatchOutcome /\ FailedStaysFailed
          /\ FailureCallback]_vars
  /\ LoginFailed ~> (login.pc = "idle" /\ ~loginButton.disabled
                       /\ loginButton.textContent = " Sign In ")

\* A failed doctor login has raised its alert and the button is enabled again.
WitnessC2 ==
  /\ alerts = <<"Invalid Doctor ID or password!">>
  /\ login.pc = "idle"
  /\ loginButton = [textContent |-> " Sign In ", disabled |-> FALSE]
  /\ location = "/login"

\* C3: a doctor login with a non-empty result has stored under currentUser
\* all fields of the first result together with id = that document's store
\* identifier before it waits for the redirect; the wait is 1500 ms, and the
\* redirect goes to /dashboard once the wait is over.
DoctorMarkerWritten ==
  (LoginSucceeded /\ login.role = "doctor")
  => /\ PendingQueryDocs # {}
     /\ login.route = "/dashboard"
     /\ LET first == FirstDoc(PendingQueryDocs)
        IN getItem(localStorage, "currentUser")
             = {FieldsOf(first.data) \cup {[key |-> "id", value |-> first.id]}}
DoctorRedirectSet ==
  (login.pc = "query" /\ login.role = "doctor" /\ login'.pc = "navTimer")
  => /\ login'.timer = 1500
     /\ location' = location
DoctorRedirect ==
  (loginRedirectTimer /\ login.role = "doctor")
  => /\ login.timer = 0
     /\ location' = "/dashboard"
     /\ localStorage' = localStorage
ClaimC3 ==
  /\ []DoctorMarkerWritten
  /\ [][DoctorRedirectSet /\ DoctorRedirect]_vars

\* A doctor login that matched two records waits with its delay elapsed.
WitnessC3 ==
  /\ LoginSucceeded
  /\ login.role = "doctor"
  /\ login.timer = 0
  /\ Cardinality(PendingQueryDocs) = 2

\* C4: a signup submission whose password differs from confirmPassword
\* alerts 'Passwords do not match!' and does nothing else: no request is put
\* in flight, the store, the button and the active tab stay as they were.
ClaimC4 ==
  [][\A fn \in FirstNames, ln \in LastNames, email \in Emails,
        password \in SignupPasswords, confirmPassword \in Passwords,
        t \in Timestamps :
       (password # confirmPassword
          /\ handleSubmitSignup(fn, ln, email, password, confirmPassword, t))
       => /\ alerts' = <<"Passwords do not match!">>
          /\ signup' = signup
          /\ signup.pc = "idle"
          /\ db' = db
          /\ usedIds' = usedIds
          /\ signupButton' = signupButton
          /\ signupButton = [textContent |-> "Sign Up", disabled |-> FALSE]
          /\ activeTab' = activeTab]_vars

\* The mismatch alert has been raised on the signup tab.
WitnessC4 ==
  /\ alerts = <<"Passwords do not match!">>
  /\ activeTab = "signup"
  /\ signup.pc = "idle"
  /\ ~signupButton.disabled

\* C5: every identifier generateDoctorId has produced for a create request is
\* 'DR' followed by exactly 8 uppercase base-36 digits, 10 characters in all.
WellFormedDoctorId(s) ==
  /\ Len(s) = 10
  /\ SubSeq(s, 1, 2) = "DR"
  /\ \A i \in 3..Len(s) : \E j \in 1..36 : CharAt(Upper36, j) = CharAt(s, i)
ClaimC5 ==
  \A op \in BagToSet(pendingOps) :
    op.kind = "addDoc" => WellFormedDoctorId(op.data.doctorId)

\* C6: the delete button of a row asks for the deletion of the document with
\* that row's id and changes nothing yet; the store's delete removes exactly
\* the document with the requested id and leaves all others as they were;
\* the snapshot the store then queues lacks that document, and once the
\* listener has consumed every queued snapshot the displayed rows are the
\* documents of the collection.
DocIdsOf(docs) == {d.id : d \in docs}
DeleteRequested ==
  \A k \in 1..MaxDocs :
    handleDeleteDoctor(k)
    => /\ \E op \in BagToSet(pendingOps') :
            /\ op.kind = "deleteDoc"
            /\ op.id = doctors[k].id
            /\ CopiesIn(op, pendingOps') = CopiesIn(op, pendingOps) + 1
            /\ \A other \in BagToSet(pendingOps') \ {op} :
                 CopiesIn(other, pendingOps') = CopiesIn(other, pendingOps)
       /\ db' = db
       /\ doctors' = doctors
DeleteRemovesExactlyOne ==
  \A op \in BagToSet(pendingOps) :
    deleteDoctorThen(op)
    => /\ db'.doctors = {d \in db.doctors : d.id # op.id}
       /\ db'.admins = db.admins
       /\ (op.id \in DocIdsOf(db.doctors) /\ subscribed
           => /\ snapshots' # << >>
              /\ \A j \in 1..Len(snapshots'[Len(snapshots')]) :
                   snapshots'[Len(snapshots')][j].id # op.id)
ListFollowsStore ==
  (Mounted /\ snapshots = << >>)
  => /\ Len(doctors) = Cardinality(db.doctors)
     /\ {doctors[k].id : k \in 1..Len(doctors)} = DocIdsOf(db.doctors)
     /\ \A k \in 1..Len(doctors) :
          \E d \in db.doctors :
            d.id = doctors[k].id /\ FieldsOf(d.data) \subseteq FieldsOf(doctors[k])
ClaimC6 ==
  /\ []ListFollowsStore
  /\ [][DeleteRequested /\ DeleteRemovesExactlyOne]_vars

\* One of two doctors has been deleted and the list shows the other one.
WitnessC6 ==
  /\ Mounted
  /\ snapshots = << >>
  /\ alertMessage = "Doctor Dr Rao has been deleted"
  /\ Cardinality(usedIds.doctors) = 2
  /\ Len(doctors) = 1
  /\ Cardinality(db.doctors) = 1

\* C7: in a doctor or admin login an empty result selects the role's
\* invalid-credentials alert and a query exception the generic one, which is
\* a different text; submitting and the store's answer raise no alert, the
\* failure callback raises exactly the selected one, and from the failure
\* on nothing is written to localStorage and the page stays.
EmptyResultAlert ==
  (getDocsThen /\ PendingQueryDocs = {})
  => /\ login.role = "doctor" => login'.message = "Invalid Doctor ID or password!"
     /\ login.role = "admin" => login'.message = "Invalid admin credentials!"
     /\ login'.message # "Login error. Please try again."
     /\ alerts' = << >>
QueryExceptionAlert ==
  getDocsCatch
  => /\ login'.message = "Login error. Please try again."
     /\ login'.pc = "failTimer"
     /\ alerts' = << >>
     /\ localStorage' = localStorage
     /\ location' = location
OneAlertPerFailure ==
  /\ (\E input \in LoginInputs : handleSubmitLogin(input[1], input[2], input[3]))
       => alerts' = << >>
  /\ loginFailureTimer
       => /\ alerts' = <<login.message>>
          /\ login.message # ""
          /\ login'.pc = "idle"
          /\ localStorage' = localStorage
          /\ location' = location
ClaimC7 ==
  [][EmptyResultAlert /\ QueryExceptionAlert /\ OneAlertPerFailure]_vars

\* A login whose query raised an exception has shown the generic alert.
WitnessC7 ==
  /\ alerts = <<"Login error. Please try again.">>
  /\ login.pc = "idle"
  /\ ~loginButton.disabled

\* Steps in which the page is loaded or left: the old widget is gone.
PageLoads == (\E route \in Routes : PageLoad(route)) \/ logoutLink
\* Such a step taken by the user rather than by the login redirect.
UserNavigates == PageLoads /\ ~loginRedirectTimer
\* The user submits the login form.
SubmitLogin ==
  \E input \in LoginInputs : handleSubmitLogin(input[1], input[2], input[3])
\* The user submits the signup form with matching passwords.
SubmitSignup ==
  \E fn \in FirstNames, ln \in LastNames, email \in Emails,
     password \in SignupPasswords, t \in Timestamps :
    handleSubmitSignup(fn, ln, email, password, password, t)

\* The login form: idle (button enabled) -> submitting (button disabled,
\* label swapped) on every submission and by nothing else; submitting -> idle
\* with the original label by the failure callback; submitting -> redirecting
\* by the success callback, which leaves /login for the attempt's route.
LoginMachine ==
  /\ SubmitLogin
       => /\ ~loginButton.disabled
          /\ loginButton' = [textContent |-> "Signing In...", disabled |-> TRUE]
  /\ (~loginButton.disabled /\ loginButton'.disabled) => SubmitLogin
  /\ (loginButton.disabled /\ loginButton' # loginButton /\ ~UserNavigates)
       => \/ /\ LoginFailed
             /\ loginButton' = [textContent |-> " Sign In ", disabled |-> FALSE]
             /\ location' = location
          \/ /\ LoginSucceeded
             /\ location' = login.route
             /\ location' # "/login"
  /\ (LoginSucceeded /\ login'.pc # "navTimer" /\ ~UserNavigates)
       => (location' = login.route /\ location' # "/login")
  /\ (LoginFailed /\ login'.pc # "failTimer" /\ ~UserNavigates)
       => loginButton' = [textContent |-> " Sign In ", disabled |-> FALSE]

\* The signup form enters submitting on every accepted submission and by
\* nothing else, and a failed write returns it to idle.
SignupMachineCommon ==
  /\ SubmitSignup
       => /\ ~signupButton.disabled
          /\ signupButton' = [textContent |-> "Creating Admin Account...",
                              disabled |-> TRUE]
  /\ (~signupButton.disabled /\ signupButton'.disabled) => SubmitSignup
  /\ signupAddDocCatch
       => signupButton' = [textContent |-> "Sign Up", disabled |-> FALSE]

\* As claimed: a successful signup ends in a redirect, and only a failure
\* takes the form from submitting back to idle.
SignupMachineClaimed ==
  /\ SignupMachineCommon
  /\ (signup.pc = "timer" /\ signup'.pc # "timer" /\ ~PageLoads)
       => location' # location
  /\ (signupButton.disabled /\ ~signupButton'.disabled /\ ~PageLoads)
       => signupAddDocCatch

\* As the code does it: a successful signup returns the form to idle once its
\* 1500 ms timer is due, selects the login tab and stays on the page.
SignupMachineActual ==
  /\ SignupMachineCommon
  /\ (signup.pc = "timer" /\ signup'.pc # "timer" /\ ~PageLoads)
       => /\ signup.timer = 0
          /\ location' = location
          /\ signupButton' = [textContent |-> "Sign Up", disabled |-> FALSE]
          /\ activeTab' = "login"
  /\ (signupButton.disabled /\ ~signupButton'.disabled /\ ~PageLoads)
       => (signupAddDocCatch \/ signupSuccessTimer)

\* C8 as claimed: both forms follow idle -> submitting -> {success:
\* redirecting | failure: idle} and make no other transition.
ClaimC8 == [][LoginMachine /\ SignupMachineClaimed]_vars

\* C8 amended: the login form follows idle -> submitting -> {success:
\* redirecting | failure: idle}; the signup form follows idle -> submitting ->
\* idle on failure and on success alike, a success also selecting the login
\* tab, and never redirects.
AmendedC8 == [][LoginMachine /\ SignupMachineActual]_vars

\* A successful signup has returned its form to idle on the login tab.
WitnessC8 ==
  /\ alerts = <<"Admin account created successfully! Use your email and password to login.">>
  /\ location = "/login"
  /\ activeTab = "login"
  /\ signupButton = [textContent |-> "Sign Up", disabled |-> FALSE]

\* C9: a login submission starts from idle and sends one query for roles
\* doctor and admin and none for role user; a query is sent by nothing but a
\* submission; once answered the attempt only waits and then ends, so no
\* second query follows; localStorage is written only by the answer that
\* makes the attempt succeed; the redirect ends a succeeded attempt and no
\* other; and no step of a login attempt writes to the store.
LoginAttemptStep ==
  SubmitLogin \/ getDocsThen \/ getDocsCatch \/ loginFailureTimer
    \/ loginRedirectTimer
QueryPerSubmission ==
  /\ SubmitLogin
       => /\ login.pc = "idle"
          /\ login'.role \in {"doctor", "admin"} => login'.pc = "query"
          /\ login'.role = "user" => login'.pc \in {"navTimer", "failTimer"}
          /\ localStorage' = localStorage
          /\ location' = location
  /\ (login'.pc = "query" /\ login' # login) => SubmitLogin
AttemptEnds ==
  /\ (login.pc = "query" /\ login' # login)
       => login'.pc \in {"navTimer", "failTimer", "idle"}
  /\ LoginSucceeded => login'.pc \in {"navTimer", "idle"}
  /\ LoginFailed => (login'.pc \in {"failTimer", "idle"} /\ ~loginRedirectTimer)
  /\ loginRedirectTimer => (LoginSucceeded /\ login'.pc = "idle")
OneMarkerWrite ==
  (localStorage' # localStorage)
  => (getDocsThen /\ login.pc = "query" /\ login'.pc = "navTimer")
NoStoreWrite == LoginAttemptStep => (db' = db /\ usedIds' = usedIds)
ClaimC9 ==
  [][QueryPerSubmission /\ AttemptEnds /\ OneMarkerWrite /\ NoStoreWrite]_vars

\* An admin login has failed against a store that holds an admin, and waits.
WitnessC9 ==
  /\ LoginFailed
  /\ login.role = "admin"
  /\ login.timer = 0
  /\ db.admins # {}

\* C10: a signup with matching passwords puts one create request in flight,
\* for the record { firstName, lastName, email, password, role 'admin',
\* createdAt, licenseId 'ADMIN_' + milliseconds }; the store's create adds
\* that one record to admins and nothing else, and nothing but a signup's
\* create changes admins; success raises one alert when its 1500 ms timer is
\* due, restores the button and selects the login tab; failure raises one
\* alert, restores the button and leaves the tab.
SignupRequest ==
  \A fn \in FirstNames, ln \in LastNames, email \in Emails,
     password \in SignupPasswords, t \in Timestamps :
    handleSubmitSignup(fn, ln, email, password, password, t)
    => /\ signup'.pc = "addDoc"
       /\ signup'.request =
            {[firstName |-> fn, lastName |-> ln, email |-> email,
              password |-> password, role |-> "admin",
              createdAt |-> toISOString(t),
              licenseId |-> "ADMIN_" \o ToString(t)]}
       /\ db' = db
       /\ alerts' = << >>
SignupCreate ==
  /\ \A id \in DocIds :
       signupAddDocThen(id)
       => /\ Cardinality(signup.request) = 1
          /\ id \notin DocIdsOf(db.admins)
          /\ db'.admins = db.admins \cup {[id |-> id, data |-> d] : d \in signup.request}
          /\ db'.doctors = db.doctors
          /\ signup'.request = {}
          /\ signup'.timer = 1500
          /\ alerts' = << >>
          /\ activeTab' = activeTab
  /\ (db'.admins # db.admins) => \E id \in DocIds : signupAddDocThen(id)
SignupOutcome ==
  /\ signupSuccessTimer
       => /\ signup.timer = 0
          /\ alerts' = <<"Admin account created successfully! Use your email and password to login.">>
          /\ signupButton' = [textContent |-> "Sign Up", disabled |-> FALSE]
          /\ activeTab' = "login"
          /\ db' = db
  /\ signupAddDocCatch
       => /\ alerts' = <<"Error creating account. Please try again.">>
          /\ signupButton' = [textContent |-> "Sign Up", disabled |-> FALSE]
          /\ activeTab' = activeTab
          /\ db' = db
ClaimC10 == [][SignupRequest /\ SignupCreate /\ SignupOutcome]_vars

\* A second signup has succeeded: two admin records, the login tab selected.
WitnessC10 ==
  /\ alerts = <<"Admin account created successfully! Use your email and password to login.">>
  /\ Cardinality(db.admins) = 2
  /\ activeTab = "login"

\* C11: submitting the create-doctor form puts exactly one create request in
\* flight, for a record with role 'doctor', the form's fields and the
\* identifier generateDoctorId has just produced, and touches nothing else;
\* the store's create adds that one record whatever doctorId the collection
\* already holds, closes the dialog, which discards the form, and shows the
\* banner naming the doctor and the identifier; a rejected create shows the
\* banner 'Error creating doctor account' and leaves store, dialog and form
\* (the banners while the console is still mounted);
\* and the doctors collection grows by nothing but such a create.
OneMore(op, before, after) ==
  /\ CopiesIn(op, after) = CopiesIn(op, before) + 1
  /\ \A other \in (BagToSet(after) \cup BagToSet(before)) \ {op} :
       CopiesIn(other, after) = CopiesIn(other, before)
RequestAdded ==
  \E op \in BagToSet(pendingOps') :
    op.kind = "addDoc" /\ CopiesIn(op, pendingOps') > CopiesIn(op, pendingOps)
CreateRequested ==
  \A r \in RandomSource, t \in Timestamps :
    (RequestAdded /\ handleCreateDoctor(r, t))
    => /\ \E op \in BagToSet(pendingOps'), f \in createForm :
            /\ op.kind = "addDoc"
            /\ op.data.role = "doctor"
            /\ op.data.doctorId = GeneratedId[r]
            /\ op.data.name = f.name /\ op.data.email = f.email
            /\ op.data.username = f.username /\ op.data.password = f.password
            /\ op.data.specialization = f.specialization
            /\ op.data.createdBy = "Admin User"
            /\ OneMore(op, pendingOps, pendingOps')
       /\ db' = db
       /\ isCreateDialogOpen' = isCreateDialogOpen
       /\ showAlert' = showAlert
CreateCommitted ==
  /\ \A op \in BagToSet(pendingOps), id \in DocIds :
       (db' # db /\ createDoctorThen(op, id))
       => /\ id \notin DocIdsOf(db.doctors)
          /\ db'.doctors = db.doctors \cup {[id |-> id, data |-> op.data]}
          /\ db'.admins = db.admins
          /\ OneMore(op, pendingOps', pendingOps)
          /\ ~isCreateDialogOpen'
          /\ createForm' = {}
          /\ Mounted
               => /\ showAlert'
                  /\ alertMessage' = "Doctor " \o op.data.name
                       \o " created successfully with ID: " \o op.data.doctorId
  /\ ~(db'.doctors \subseteq db.doctors)
       => \E op \in BagToSet(pendingOps), id \in DocIds : createDoctorThen(op, id)
CreateRejected ==
  \A op \in BagToSet(pendingOps) :
    createDoctorCatch(op)
    => /\ Mounted => (showAlert' /\ alertMessage' = "Error creating doctor account")
       /\ db' = db
       /\ OneMore(op, pendingOps', pendingOps)
       /\ isCreateDialogOpen' = isCreateDialogOpen
       /\ createForm' = createForm
ClaimC11 == [][CreateRequested /\ CreateCommitted /\ CreateRejected]_vars

\* A second doctor has been created with the doctorId of an existing one.
WitnessC11 ==
  /\ Mounted
  /\ ~isCreateDialogOpen
  /\ showAlert
  /\ alertMessage = "Doctor Dr Rao created successfully with ID: DRI"
  /\ \E d, e \in db.doctors : d # e /\ d.data.doctorId = "DRI" /\ e.data.doctorId = "DRI"

\* C12: the open subscriptions are as many as the mounted consoles, one or
\* none; the subscription is opened by the step that mounts the console, with
\* a first snapshot of the collection queued, and closed by the step that
\* unmounts it, with every undelivered snapshot dropped; the list changes
\* only in a snapshot callback or when the console is mounted or unmounted;
\* and while no console is mounted no snapshot is queued or delivered and the
\* list stays, whatever happens to the store.
Subscriptions == IF subscribed THEN 1 ELSE 0
MountedDashboards == IF Mounted THEN 1 ELSE 0
OneSubscriptionPerDashboard ==
  /\ Subscriptions = MountedDashboards
  /\ ~Mounted => snapshots = << >>
OpenedOnMount ==
  (Mounted' /\ (~Mounted \/ \E route \in Routes : PageLoad(route)))
  => /\ subscribed'
     /\ snapshots' = <<SortedDocs(db.doctors)>>
     /\ doctors' = << >>
ClosedOnUnmount ==
  (Mounted /\ ~Mounted') => (~subscribed' /\ snapshots' = << >>)
NoCallbackAfterUnmount ==
  /\ onSnapshotCallback => (Mounted /\ subscribed)
  /\ doctors' # doctors
       => (onSnapshotCallback \/ logoutLink \/ \E route \in Routes : PageLoad(route))
  /\ (~Mounted /\ ~Mounted') => (doctors' = doctors /\ snapshots' = << >>)
ClaimC12 ==
  /\ []OneSubscriptionPerDashboard
  /\ [][OpenedOnMount /\ ClosedOnUnmount /\ NoCallbackAfterUnmount]_vars

\* The console has been left with a store call in flight, and the store has
\* doctors the closed subscription will not report.
WitnessC12 ==
  /\ location = "/login"
  /\ ~subscribed
  /\ pendingOps # EmptyBag
  /\ db.doctors # {}
  /\ doctors = << >>

\* C13: a snapshot callback replaces the list by the snapshot's documents, in
\* the snapshot's order, each row carrying the document's store id as id and
\* the document's fields, and keeps no row of the list it replaces; the
\* snapshot queued last is the collection as it is; and once no snapshot is
\* undelivered the list, and with it the 'Active Doctors' count, is the
\* collection.
ActiveDoctors == Len(doctors)
RowIs(row, doc) ==
  /\ row.id = doc.id
  /\ DOMAIN row = (DOMAIN doc.data) \cup {"id"}
  /\ \A f \in DOMAIN doc.data : row[f] = doc.data[f]
ListIs(list, docs) ==
  /\ Len(list) = Len(docs)
  /\ \A k \in 1..Len(docs) : RowIs(list[k], docs[k])
ReplacedWholesale ==
  onSnapshotCallback
  => /\ ListIs(doctors', Head(snapshots))
     /\ snapshots' = Tail(snapshots)
     /\ db' = db
SnapshotIsCollection ==
  (Mounted /\ snapshots # << >>)
  => snapshots[Len(snapshots)] = SortedDocs(db.doctors)
ListIsCollection ==
  (Mounted /\ snapshots = << >>)
  => /\ ListIs(doctors, SortedDocs(db.doctors))
     /\ ActiveDoctors = Cardinality(db.doctors)
ClaimC13 ==
  /\ [](SnapshotIsCollection /\ ListIsCollection)
  /\ [][ReplacedWholesale]_vars

\* Every snapshot is delivered and the list shows two doctors that have the
\* same doctorId and differ in the store id.
WitnessC13 ==
  /\ Mounted
  /\ snapshots = << >>
  /\ ActiveDoctors = 2
  /\ doctors[1].id # doctors[2].id
  /\ doctors[1].doctorId = doctors[2].doctorId

\* C14: whatever the number of records a doctor login query matches, one or
\* several, the attempt succeeds with the redirect to /dashboard, and the
\* marker written is the copy of the entry the result lists first, the one
\* with the least store id, with that id; the other entries are not used.
ListedFirst(d, docs) ==
  d \in docs /\ \A e \in docs : IdIndex(d.id) <= IdIndex(e.id)
MarkerOf(d) ==
  {[key |-> "id", value |-> d.id]}
  \cup {[key |-> f, value |-> d.data[f]] : f \in DOMAIN d.data}
FirstMatchUsed ==
  (getDocsThen /\ login.role = "doctor" /\ PendingQueryDocs # {})
  => /\ login'.pc = "navTimer"
     /\ login'.route = "/dashboard"
     /\ login'.message = ""
     /\ \E d \in PendingQueryDocs :
          /\ ListedFirst(d, PendingQueryDocs)
          /\ getItem(localStorage', "currentUser") = {MarkerOf(d)}
ClaimC14 == [][FirstMatchUsed]_vars

\* A doctor login has succeeded on a query two records satisfy, and the
\* marker carries the store id of the first.
WitnessC14 ==
  /\ login.pc = "navTimer"
  /\ login.role = "doctor"
  /\ Cardinality(PendingQueryDocs) = 2
  /\ \E m \in getItem(localStorage, "currentUser") :
       [key |-> "id", value |-> DocName(1)] \in m

\* C15: in every reachable state, for each login query (the doctors
\* collection by doctorId and password, the admins collection by email and
\* password) at most one stored record satisfies it.
LoginQueries ==
  {[collection |-> QueryCollection(branch), field |-> QueryField(branch)] :
     branch \in {"doctor", "admin"}}
ClaimC15 ==
  \A q \in LoginQueries :
    \A d, e \in db[q.collection] :
      (d.data[q.field] = e.data[q.field] /\ d.data.password = e.data.password)
      => d = e

\* C16: the route of a successful login is determined by the role selector
\* of the submission alone: /dashboard for doctor, /user for user and
\* /admindashboard for admin, whichever record the query matched and whatever
\* its fields hold; the redirect goes to that route, and on the login page
\* nothing but a page load, the Back button or that redirect changes the
\* route.
RouteOfSelector ==
  [r \in Roles |-> CASE r = "doctor" -> "/dashboard"
                     [] r = "user" -> "/user"
                     [] r = "admin" -> "/admindashboard"]
TargetBySelector == LoginSucceeded => login.route = RouteOfSelector[login.role]
RedirectBySelector ==
  /\ loginRedirectTimer => location' = RouteOfSelector[login.role]
  /\ (location = "/login" /\ location' # location)
       => \/ loginRedirectTimer
          \/ \E route \in Routes : PageLoad(route)
          \/ \E route \in HistoryRoutes : historyBack(route)
ClaimC16 == []TargetBySelector /\ [][RedirectBySelector]_vars

\* An admin login whose query two records of the admins collection satisfy
\* waits for its redirect to the admin console.
WitnessC16 ==
  /\ LoginSucceeded
  /\ login.role = "admin"
  /\ Cardinality(PendingQueryDocs) = 2
  /\ login.route = "/admindashboard"
  /\ TimerDue(login.timer)

\* The literal pairs of the earlier version of the form, which has no role
\* selector: doctor123/password and user1234/1234.
LegacyCredentials == {<<"doctor123", "password">>, <<"user1234", "1234">>}

\* What a role-user submission does when exactly the pairs in `accepted` let
\* the user in: no query is sent; an accepted pair sets the redirect to
\* /user, any other pair the failure alert.
UserSubmission(accepted) ==
  \A input \in LoginInputs :
    (input[1] = "user" /\ handleSubmitLogin(input[1], input[2], input[3]))
    => /\ login'.pc # "query"
       /\ login'.timer = 1500
       /\ db' = db
       /\ IF <<input[2], input[3]>> \in accepted
          THEN login'.pc = "navTimer" /\ login'.route = "/user"
          ELSE /\ login'.pc = "failTimer"
               /\ login'.message = "Invalid credentials or role mismatch!"
UserAttempt ==
  /\ login.role = "user" => login.pc # "query"
  /\ (login.role = "user" /\ LoginSucceeded) => login.route = "/user"
UserAttemptEnds ==
  /\ (loginRedirectTimer /\ login.role = "user") => location' = "/user"
  /\ (loginFailureTimer /\ login.role = "user")
       => alerts' = <<"Invalid credentials or role mismatch!">>
  /\ login.role = "user" => ~getDocsThen /\ ~getDocsCatch

\* C17: a role-user submission sends no query and succeeds, with /user as
\* its route, exactly when identifier and secret are one of the two literal
\* pairs; every other one fails with 'Invalid credentials or role mismatch!'.
ClaimC17 ==
  /\ []UserAttempt
  /\ [][UserSubmission(LegacyCredentials) /\ UserAttemptEnds]_vars

\* C17 as the code has it: the one literal pair is user1234/1234.
AmendedC17 ==
  /\ []UserAttempt
  /\ [][UserSubmission({<<"user1234", "1234">>}) /\ UserAttemptEnds]_vars

\* A role-user submission of doctor123/password has failed and waits for its
\* alert.
WitnessC17 ==
  /\ login.role = "user"
  /\ login.userId = "doctor123"
  /\ login.password = "password"
  /\ LoginFailed
  /\ login.message = "Invalid credentials or role mismatch!"

\* C18: once localStorage holds currentUser, every step of the application
\* leaves the key present: logins of every role, signups, doctor creations and
\* deletions, the Logout link, page loads and the passing of time; the value
\* changes only when a later doctor login succeeds and writes its own marker.
MarkerPresent == getItem(localStorage, "currentUser") # {}
MarkerStays == MarkerPresent => MarkerPresent'
MarkerOnlyRewritten ==
  localStorage' # localStorage
  => (getDocsThen /\ login.role = "doctor" /\ PendingQueryDocs # {})
ClaimC18 == [][MarkerStays /\ MarkerOnlyRewritten]_vars

\* The marker is still there after the doctor it names has been deleted, an
\* admin has signed up and the console has been left for the login page.
WitnessC18 ==
  /\ MarkerPresent
  /\ db.doctors = {}
  /\ db.admins # {}
  /\ location = "/login"
  /\ pendingOps = EmptyBag

\* C19: a record enters the doctors collection only in the success step of
\* the creation form, under a store id never used before and with the nine
\* fields the form's submission built; it leaves only in the success step of
\* a delete of its store id; and every other record of the collection is the
\* same record, field for field, after every step of the application.
DoctorFields ==
  {"doctorId", "name", "email", "username", "password", "specialization",
   "role", "createdAt", "createdBy"}
CreatedOnlyByForm ==
  \A d \in db'.doctors \ db.doctors :
    /\ d.id \notin usedIds.doctors
    /\ DOMAIN d.data = DoctorFields
    /\ \E op \in BagToSet(pendingOps) :
         createDoctorThen(op, d.id) /\ op.kind = "addDoc" /\ d.data = op.data
RemovedOnlyByDelete ==
  \A d \in db.doctors \ db'.doctors :
    /\ \A e \in db'.doctors : e.id # d.id
    /\ \E op \in BagToSet(pendingOps) :
         deleteDoctorThen(op) /\ op.kind = "deleteDoc" /\ op.id = d.id
ClaimC19 == [][CreatedOnlyByForm /\ RemovedOnlyByDelete]_vars

\* Of two doctors created the first has been deleted, and a login has read
\* the second, which is as the form's submission built it.
WitnessC19 ==
  /\ usedIds.doctors = {DocName(1), DocName(2)}
  /\ \E f \in DoctorForms :
       db.doctors = {[id |-> DocName(2), data |-> doctorData("DRI", f, 1500)]}
  /\ login.role = "doctor"
  /\ LoginSucceeded

\* C20: switching the tab or leaving /login by the Back button, with the
\* application still running, leaves every pending login and signup
\* operation as it is; a pending operation ends only in one of its own
\* callbacks or when a page load discards the page; a query in flight can
\* always be answered and a timer that is due can always run its callback,
\* whichever tab or route is showing; the callback that runs does all of its
\* work (alert and button for a failure, the redirect for a success, alert,
\* button and tab for a signup); and a failure timer or signup timer that is
\* pending does come to its end.
UserMovesOn ==
  showLogin \/ showSignup \/ \E route \in HistoryRoutes : historyBack(route)
LoginPending == login.pc \in {"query", "navTimer", "failTimer"}
SignupPending == signup.pc \in {"addDoc", "timer"}
PageDiscarded == loginRedirectTimer \/ \E route \in Routes : PageLoad(route)
NotCancelled ==
  /\ UserMovesOn
       => /\ login' = login
          /\ signup' = signup
          /\ loginButton' = loginButton
          /\ signupButton' = signupButton
  /\ (LoginPending /\ login' # login)
       => \/ getDocsThen \/ getDocsCatch \/ loginFailureTimer \/ Tick
          \/ PageDiscarded
  /\ (SignupPending /\ signup' # signup)
       => \/ \E id \in DocIds : signupAddDocThen(id)
          \/ signupAddDocCatch \/ signupSuccessTimer \/ Tick
          \/ PageDiscarded
CallbacksReady ==
  /\ login.pc = "query" => ENABLED getDocsCatch
  /\ (LoginFailed /\ login.timer = 0) => ENABLED loginFailureTimer
  /\ (LoginSucceeded /\ login.timer = 0) => ENABLED loginRedirectTimer
  /\ signup.pc = "addDoc" => ENABLED signupAddDocCatch
  /\ (signup.pc = "timer" /\ signup.timer = 0) => ENABLED signupSuccessTimer
  /\ ((LoginPending \/ SignupPending) /\ ~(ENABLED Tick))
       => (login.timer = 0 /\ signup.timer = 0)
CallbacksRun ==
  /\ loginFailureTimer
       => /\ login.message # ""
          /\ alerts' = <<login.message>>
          /\ loginButton' = [textContent |-> " Sign In ", disabled |-> FALSE]
          /\ location' = location
  /\ loginRedirectTimer
       => (login.route \in {"/dashboard", "/user", "/admindashboard"}
           /\ location' = login.route)
  /\ signupSuccessTimer
       => /\ alerts' = <<"Admin account created successfully! Use your email and password to login.">>
          /\ signupButton' = [textContent |-> "Sign Up", disabled |-> FALSE]
          /\ activeTab' = "login"
ClaimC20 ==
  /\ []CallbacksReady
  /\ [][NotCancelled /\ CallbacksRun]_vars
  /\ (LoginFailed ~> ~LoginPending)
  /\ (signup.pc = "timer" ~> ~SignupPending)

\* The user has gone back to the landing page during a login attempt, and
\* the attempt's failure callback has just raised its alert there.
WitnessC20 ==
  /\ location = "/"
  /\ alerts = <<"Invalid Doctor ID or password!">>
  /\ loginButton = [textContent |-> " Sign In ", disabled |-> FALSE]
  /\ ~LoginPending

\* C21: while the doctor dashboard is showing, the greeting's name is the
\* value of the name entry of currentUser when localStorage holds the key and
\* that value is not empty, and the empty string otherwise; no greeting exists
\* on another route; and the step that mounts the dashboard, like every step
\* that changes the greeting, leaves localStorage as it is.
MarkerNames ==
  {e.value : e \in {x \in UNION getItem(localStorage, "currentUser") :
                      x.key = "name" /\ x.value # ""}}
GreetingShown ==
  /\ (location = "/dashboard" /\ MarkerNames # {}) => doctorName \in MarkerNames
  /\ (location = "/dashboard" /\ MarkerNames = {}) => doctorName = ""
  /\ location # "/dashboard" => doctorName = ""
ReadOnly ==
  (location' = "/dashboard" \/ doctorName' # doctorName)
  => localStorage' = localStorage
ClaimC21 == []GreetingShown /\ [][ReadOnly]_vars

\* The dashboard greets the doctor whose login wrote the marker.
WitnessC21 ==
  /\ location = "/dashboard"
  /\ doctorName = "Dr Rao"
  /\ MarkerPresent

\* C22: the record a successful signup writes holds the email and password
\* submitted; no step removes or changes a record of admins; and the answer
\* to an admin login query succeeds, with /admindashboard as its route,
\* exactly when some stored admin record has the identifier as email and the
\* secret as password, and otherwise fails with 'Invalid admin credentials!'.
\* So a login with a signup's email and password succeeds from the signup's
\* write on, and one with a secret no record for that email holds fails.
AdminsWith(store, email, password) ==
  {d \in store.admins : d.data.email = email /\ d.data.password = password}
SignupThenStored ==
  \A id \in DocIds :
    signupAddDocThen(id)
    => \A request \in signup.request :
         \E d \in AdminsWith(db', request.email, request.password) : d.id = id
AdminsKept == db.admins \subseteq db'.admins
AdminLoginAnswer ==
  (getDocsThen /\ login.role = "admin")
  => IF AdminsWith(db, login.userId, login.password) # {}
     THEN /\ login'.pc = "navTimer"
          /\ login'.route = "/admindashboard"
          /\ login'.message = ""
     ELSE /\ login'.pc = "failTimer"
          /\ login'.message = "Invalid admin credentials!"
          /\ login'.route = ""
ClaimC22 == [][SignupThenStored /\ AdminsKept /\ AdminLoginAnswer]_vars

\* After one signup, a login with its email and password waits for the
\* redirect to the admin console.
WitnessC22 ==
  /\ Cardinality(db.admins) = 1
  /\ login.role = "admin"
  /\ login.userId = "a@b.com"
  /\ login.password = "pw123"
  /\ LoginSucceeded
  /\ login.route = "/admindashboard"

\* C23: the record a doctor creation adds holds the generated doctorId and
\* the form's password; the answer to a doctor login query succeeds, with
\* /dashboard as its route, exactly when some stored doctor record has the
\* identifier as doctorId and the secret as password, and otherwise fails with
\* 'Invalid Doctor ID or password!', which its failure callback raises; a
\* delete removes the document of its store id, so that a login with that
\* doctor's credentials fails from then on unless another record matches;
\* and the delete, the failed answer and the failure callback leave
\* localStorage, with a marker an earlier login of that doctor wrote, as it is.
DoctorsWith(store, doctorId, password) ==
  {d \in store.doctors : d.data.doctorId = doctorId /\ d.data.password = password}
CreatedThenStored ==
  \A op \in BagToSet(pendingOps), id \in DocIds :
    (db' # db /\ createDoctorThen(op, id))
    => \E d \in DoctorsWith(db', op.data.doctorId, op.data.password) : d.id = id
DoctorLoginAnswer ==
  (getDocsThen /\ login.role = "doctor")
  => IF DoctorsWith(db, login.userId, login.password) # {}
     THEN login'.pc = "navTimer" /\ login'.route = "/dashboard"
     ELSE /\ login'.pc = "failTimer"
          /\ login'.message = "Invalid Doctor ID or password!"
          /\ localStorage' = localStorage
DeletedThenGone ==
  \A op \in BagToSet(pendingOps) :
    (db' # db /\ deleteDoctorThen(op))
    => /\ \A d \in db'.doctors : d.id # op.id
       /\ \A d \in db.doctors :
            d.id = op.id
            => DoctorsWith(db', d.data.doctorId, d.data.password)
                 = DoctorsWith(db, d.data.doctorId, d.data.password) \ {d}
       /\ localStorage' = localStorage
NotFoundRaised ==
  (loginFailureTimer /\ login.role = "doctor"
     /\ login.message = "Invalid Doctor ID or password!")
  => (alerts' = <<"Invalid Doctor ID or password!">> /\ localStorage' = localStorage)
ClaimC23 ==
  [][CreatedThenStored /\ DoctorLoginAnswer /\ DeletedThenGone /\ NotFoundRaised]_vars

\* The doctor whose login wrote the marker has been deleted; a later login
\* with the same credentials has failed, and the marker is still there.
WitnessC23 ==
  /\ db.doctors = {}
  /\ \E m \in getItem(localStorage, "currentUser") :
       [key |-> "doctorId", value |-> login.userId] \in m
  /\ login.role = "doctor"
  /\ login.password = "pw123"
  /\ LoginFailed
  /\ login.message = "Invalid Doctor ID or password!"

\* C24: localStorage is empty or holds the one key currentUser, whose value
\* is a doctor record with its store id; the answer that makes a doctor login
\* succeed sets it to the first matched record with that record's store id;
\* and every other step (a failed answer, an admin or user login, a signup,
\* a doctor creation or deletion, the Logout link, a page load, a timer)
\* leaves localStorage as it is.  So the marker is that of the latest
\* successful doctor login.
MarkerEntry(d) == [key |-> "currentUser", value |-> MarkerOf(d)]
DoctorLoginSucceeds ==
  getDocsThen /\ login.role = "doctor"
    /\ DoctorsWith(db, login.userId, login.password) # {}
MarkerIsRecord ==
  \/ localStorage = {}
  \/ \E d \in ConsoleDoctors : localStorage = {MarkerEntry(d)}
MarkerOfLatestLogin ==
  DoctorLoginSucceeds
  => \E d \in DoctorsWith(db, login.userId, login.password) :
       /\ ListedFirst(d, DoctorsWith(db, login.userId, login.password))
       /\ localStorage' = {MarkerEntry(d)}
MarkerFrame == ~DoctorLoginSucceeds => localStorage' = localStorage
ClaimC24 == []MarkerIsRecord /\ [][MarkerOfLatestLogin /\ MarkerFrame]_vars

\* After a doctor login wrote the marker, an admin login has succeeded and
\* the marker is the doctor's.
WitnessC24 ==
  /\ \E d \in db.doctors : localStorage = {MarkerEntry(d)}
  /\ login.role = "admin"
  /\ LoginSucceeded
  /\ TimerDue(login.timer)

\* C25: whenever the doctor dashboard is rendered localStorage holds a
\* session marker with role 'doctor', and whenever the admin console is
\* rendered it holds one with role 'admin' (the least a completed login of
\* that role on this client would have left).
MarkerWithRole(role) ==
  \E m \in getItem(localStorage, "currentUser") :
    [key |-> "role", value |-> role] \in m
ClaimC25 ==
  /\ location = "/dashboard" => MarkerWithRole("doctor")
  /\ location = "/admindashboard" => MarkerWithRole("admin")

\* C26: a banner that is showing is hidden by a banner timer only when the
\* timer of the action that raised it, the one set last, is due: it has then
\* been visible for its full 3000 ms, and no timer of an earlier action hides
\* it before.
LatestBannerTimer == bannerTimers[Len(bannerTimers)]
HiddenByOwnTimer ==
  (bannerTimer /\ showAlert) => TimerDue(LatestBannerTimer)
ClaimC26 == [][HiddenByOwnTimer]_vars

\* C27: a delete whose document is no longer in the collection (the row was
\* clicked twice and the first delete has been performed) changes nothing in
\* the store, queues no snapshot and ends in the banner 'Doctor <name> has
\* been deleted' like the first; every delete keeps every document of another
\* store id; deleting the same id from the result of a delete gives that
\* result again; and a delete in flight ends only in its success step or its
\* catch step, each of which shows a banner, or with the page.
DeleteInFlight(op) == BagIn(op, pendingOps) /\ op.kind = "deleteDoc"
SecondDelete ==
  \A op \in BagToSet(pendingOps) :
    (deleteDoctorThen(op) /\ op.id \notin DocIdsOf(db.doctors))
    => /\ db' = db
       /\ snapshots' = snapshots
       /\ Mounted => (showAlert' /\ alertMessage' = "Doctor " \o op.name \o " has been deleted")
OthersKept ==
  \A op \in BagToSet(pendingOps) :
    (pendingOps' # pendingOps /\ deleteDoctorThen(op))
    => /\ {d \in db.doctors : d.id # op.id} = db'.doctors
       /\ DocsAfterDelete(db'.doctors, op.id) = db'.doctors
EndsInBanner ==
  \A op \in BagToSet(pendingOps) :
    (DeleteInFlight(op) /\ CopiesIn(op, pendingOps') < CopiesIn(op, pendingOps))
    => \/ deleteDoctorThen(op) /\ (Mounted => showAlert')
       \/ deleteDoctorCatch(op) /\ (Mounted => showAlert')
       \/ PageDiscarded
ClaimC27 == [][SecondDelete /\ OthersKept /\ EndsInBanner]_vars

\* The row was clicked twice: the first delete has removed the document and
\* shown its banner, the second is in flight for the same store id, and
\* another doctor is in the collection.
WitnessC27 ==
  /\ Mounted
  /\ showAlert
  /\ alertMessage = "Doctor Dr Rao has been deleted"
  /\ snapshots = << >>
  /\ Cardinality(db.doctors) = 1
  /\ \E op \in BagToSet(pendingOps) :
       /\ op.kind = "deleteDoc"
       /\ op.id \in usedIds.doctors
       /\ op.id \notin DocIdsOf(db.doctors)


\* C28: a rejected doctor-record write leaves the create dialog as it was
\* (open, if the admin has not closed it), the form with the values typed,
\* the store, the listed doctors, the queued snapshots, the stored login
\* marker, the route and the login widgets unchanged; of the console's state
\* only the banner (text, visibility and its timer) changes, to the error
\* banner.  An answer of the store to a create closes the dialog or empties the
\* form only when it is the acceptance, and then the record is in the
\* collection.
OnlyBannerChanges ==
  \A op \in BagToSet(pendingOps) :
    createDoctorCatch(op)
    => /\ UNCHANGED <<isCreateDialogOpen, createForm, db, usedIds, doctors,
                      snapshots, subscribed, location, localStorage,
                      doctorName, widgetVars>>
       /\ IF Mounted
          THEN /\ showAlert'
               /\ alertMessage' = "Error creating doctor account"
               /\ bannerTimers' = Append(bannerTimers, BannerDelay)
          ELSE UNCHANGED <<showAlert, alertMessage, bannerTimers>>
CreateAnswered(op) ==
  /\ op.kind = "addDoc"
  /\ CopiesIn(op, pendingOps') < CopiesIn(op, pendingOps)
  /\ ~PageDiscarded
DialogClosedOrReset ==
  \/ isCreateDialogOpen /\ ~isCreateDialogOpen'
  \/ createForm # {} /\ createForm' # createForm
ClosedOnlyOnSuccess ==
  \A op \in BagToSet(pendingOps) :
    (CreateAnswered(op) /\ DialogClosedOrReset)
    => /\ \E d \in db'.doctors \ db.doctors : d.data = op.data
       /\ ~isCreateDialogOpen'
       /\ createForm' = {}
ClaimC28 == [][OnlyBannerChanges /\ ClosedOnlyOnSuccess]_vars

\* The write of an open dialog has been rejected: the dialog is still open
\* with the typed values under the error banner and nothing is stored.
WitnessC28 ==
  /\ Mounted
  /\ isCreateDialogOpen
  /\ createForm \subseteq DoctorForms /\ createForm # {}
  /\ showAlert
  /\ alertMessage = "Error creating doctor account"
  /\ db.doctors = {}
  /\ pendingOps = EmptyBag

\* C30: the identifier field of the login form follows the role select: each
\* change of the select to admin leaves the label 'Email' and the input type
\* email, each change to doctor leaves the label 'Doctor ID' with the Doctor
\* ID placeholder and the type text, and each change to any other value
\* leaves the label 'Licence ID' and the type text.
FieldFollowsRole ==
  \A role \in RoleOptions :
    handleRoleChange(role)
    => /\ selectedRole' = role
       /\ IF role = "admin"
          THEN userIdLabel' = "Email" /\ userIdInput'.type = "email"
          ELSE IF role = "doctor"
          THEN /\ userIdLabel' = "Doctor ID"
               /\ userIdInput'.placeholder = "Enter Doctor ID (e.g., DR8A3F2B1C)"
               /\ userIdInput'.type = "text"
          ELSE userIdLabel' = "Licence ID" /\ userIdInput'.type = "text"
ClaimC30 == [][FieldFollowsRole]_vars

\* C29: activating the delete control of a patient row calls the
\* onDeleteUser callback once, with the id of that row's patient, and raises
\* no error that goes uncaught.
RemovalRequested ==
  \A k \in 1..MaxUsers :
    deleteUserClick(k)
    => /\ onDeleteUserCalls' = Append(onDeleteUserCalls, patients[k].id)
       /\ uncaughtErrors' = uncaughtErrors
=============================================================================
